---- MODULE Spec2Model ----
(***************************************************************************)
(* Model of the dashboard code-generation graph of vizro-ai                *)
(* (vizro_ai/dashboard/graph/code_generation.py).                          *)
(*                                                                         *)
(* The graph is a langgraph StateGraph over GraphState.  It is executed in *)
(* supersteps: the tasks of one step run concurrently, the updates they    *)
(* return are buffered, and when every task of the step has returned the   *)
(* updates are applied to the state (in task order, through the reducer of *)
(* each field) and the nodes triggered by the step form the next step.  A  *)
(* task that raises aborts the run.                                        *)
(*                                                                         *)
(* Strings that the code inspects character by character (the dataset      *)
(* names) are sequences of one-character strings.                          *)
(***************************************************************************)
EXTENDS Integers, Sequences, FiniteSets, TLC

\* Bounds of the model.
MaxDfs == 2
MaxPages == 2
MaxNameLen == 1
MaxLongNameLen == 4
MaxOutputs == 2

VARIABLES
    input,              \* the state the graph was invoked with
    messages,           \* GraphState.messages
    dfs,                \* GraphState.dfs
    df_metadata,        \* GraphState.df_metadata
    dashboard_plan,     \* GraphState.dashboard_plan
    pages,              \* GraphState.pages
    dashboard,          \* GraphState.dashboard
    df_idx,             \* _store_df_info: position of the for loop in dfs
    current_df_names,   \* _store_df_info: local current_df_names
    local_df_metadata,  \* _store_df_info: local df_metadata
    sends,              \* the Send objects returned by _continue_to_pages
    task_writes,        \* per _build_page task: the update it returned, <<>> while it runs
    completed,          \* the _build_page tasks that have returned, in the order they returned
    requests,           \* the completion requests _store_df_info has issued, in order
    pc,                 \* the node(s) of the current superstep
    trace,              \* the supersteps entered so far, in order
    action,             \* the Action model: its function kind and its configured outputs
    inputs,             \* _action_callback_function: argument inputs
    outputs,            \* _action_callback_function: argument outputs
    return_value,       \* _action_callback_function: local return_value
    result,             \* what _action_callback_function returned
    action_pc           \* position in build / callback_wrapper / _action_callback_function

vars == <<input, messages, dfs, df_metadata, dashboard_plan, pages, dashboard,
          df_idx, current_df_names, local_df_metadata, sends, task_writes,
          completed, requests, pc, trace,
          action, inputs, outputs, return_value, result, action_pc>>

graph_state == <<messages, dfs, df_metadata, dashboard_plan, pages, dashboard>>
store_df_info_locals == <<df_idx, current_df_names, local_df_metadata>>
build_page_tasks == <<sends, task_writes, completed>>
action_callback == <<action, inputs, outputs, return_value, result, action_pc>>
graph_run == <<input, graph_state, store_df_info_locals, build_page_tasks, requests, pc, trace>>

\* Python's None (the default of dashboard_plan and dashboard).
None == [is_none |-> TRUE]

-----------------------------------------------------------------------------
\* Characters and names.

\* One representative per class of character the normalisation tells apart:
\* an ASCII lower-case letter, an ASCII upper-case letter, the underscore, a
\* non-word character and a non-ASCII letter (a word character for Python's
\* Unicode-aware \W).
Alphabet == {"a", "A", "_", "-", "eacute"}

WordChars == {"a", "A", "_", "eacute"}

RECURSIVE StringsOfLen(_)
StringsOfLen(n) ==
    IF n = 0 THEN {<<>>}
    ELSE {<<c>> \o s : c \in Alphabet, s \in StringsOfLen(n - 1)}

StringsUpTo(n) == UNION {StringsOfLen(k) : k \in 0..n}

\* The dataset names the completion service may return during a graph run.
DatasetNames == StringsUpTo(MaxNameLen)

\* The dataset names of the runs of the summarize stage alone.
LongDatasetNames == StringsUpTo(MaxLongNameLen)

\* str.lower()
LowerChar(c) == IF c = "A" THEN "a" ELSE c

Lower(s) == [i \in 1..Len(s) |-> LowerChar(s[i])]

\* The rest of s after its leading non-word characters.
RECURSIVE SkipNonWord(_)
SkipNonWord(s) ==
    IF s = <<>> THEN <<>>
    ELSE IF Head(s) \in WordChars THEN s
    ELSE SkipNonWord(Tail(s))

\* re.sub(r"\W+", "_", s)
RECURSIVE ReSub(_)
ReSub(s) ==
    IF s = <<>> THEN <<>>
    ELSE IF Head(s) \in WordChars THEN <<Head(s)>> \o ReSub(Tail(s))
    ELSE <<"_">> \o ReSub(SkipNonWord(s))

RECURSIVE LStrip(_)
LStrip(s) ==
    IF s # <<>> /\ Head(s) = "_" THEN LStrip(Tail(s)) ELSE s

RECURSIVE RStrip(_)
RStrip(s) ==
    IF s # <<>> /\ s[Len(s)] = "_" THEN RStrip(SubSeq(s, 1, Len(s) - 1)) ELSE s

\* A strip that removes at most one underscore at each end.
StripOne(s) ==
    LET l == IF s # <<>> /\ Head(s) = "_" THEN Tail(s) ELSE s
    IN  IF l # <<>> /\ l[Len(l)] = "_" THEN SubSeq(l, 1, Len(l) - 1) ELSE l

\* str.strip("_")
Strip(s) == RStrip(LStrip(s))

\* df_name.dataset_name --> df_id
DfId(dataset_name) == Strip(ReSub(Lower(dataset_name)))

-----------------------------------------------------------------------------
\* Values.

\* A mapping with no entry ({} in Python).
EmptyDict == [k \in {} |-> None]

\* d after d.setdefault(k, v)
DictSetDefault(d, k, v) == [x \in DOMAIN d \cup {k} |-> IF x \in DOMAIN d THEN d[x] ELSE v]

\* d after d[k] = v
DictSet(d, k, v) == [x \in DOMAIN d \cup {k} |-> IF x = k THEN v ELSE d[x]]

\* _get_df_info(df): the schema and the sample of a dataset.
GetDfInfo(df) == [df_schema |-> <<"schema", df>>, df_sample |-> <<"sample", df>>]

\* The datasets handed to a run: n distinct datasets.
DfsOfLen(n) == [i \in 1..n |-> i]

\* An element of dfs that is not a pandas DataFrame.
NotADataFrame == 0 - 1

\* isinstance(df, pd.DataFrame)
IsDataFrame(df) == df # NotADataFrame

\* The values of dfs a caller may pass: n elements, each one a dataset or not.
DfsValuesOfLen(n) ==
    {[i \in 1..n |-> IF i \in bad THEN NotADataFrame ELSE i] : bad \in SUBSET (1..n)}

\* A check that looks at the type of dfs only.
CheckIsListOnly(is_list, v) == is_list

\* GraphState.check_dataframes(v): TRUE when the validator returns v, FALSE
\* when it raises.  is_list is isinstance(v, list).
CheckDataframes(is_list, v) ==
    /\ is_list
    /\ \A i \in DOMAIN v : IsDataFrame(v[i])

\* The entry of a dataset that was summarized before the run (as in the
\* module's own example state).
KnownMetadata == DictSet(EmptyDict, <<"a">>, [df_schema |-> <<"schema", 0>>, df |-> 0])

\* PageBuilder(model, df_metadata, page_plan).page
PageBuilderPage(page_plan, metadata) == [page_plan |-> page_plan]

\* A page that is already in the state the graph is invoked with.
KnownPage == [page_plan |-> "p0"]

Titles == {"t1", "t2"}
PagePlans == {"p1", "p2"}

RECURSIVE PagePlansOfLen(_)
PagePlansOfLen(n) ==
    IF n = 0 THEN {<<>>}
    ELSE {<<p>> \o s : p \in PagePlans, s \in PagePlansOfLen(n - 1)}

\* The plans _get_dashboard_plan may return: a title and a list of page plans.
DashboardPlans ==
    [title : Titles, pages : UNION {PagePlansOfLen(k) : k \in 0..MaxPages}]

\* The states the graph may be invoked with.
Inputs ==
    [messages : {<<"user request">>},
     dfs : UNION {DfsValuesOfLen(n) : n \in 0..MaxDfs},
     dfs_is_list : BOOLEAN,
     df_metadata : {EmptyDict, KnownMetadata},
     pages : {<<>>, <<KnownPage>>}]

-----------------------------------------------------------------------------
\* The values of the action callback (vizro.models.Action).

\* A Python value as far as the callback looks at it: its type, its keys
\* (of a mapping) and its len().
Value(kind, keys, len) == [kind |-> kind, keys |-> keys, len |-> len]

\* The keys of dictionary outputs and of returned dictionaries.
Keys == {"k1", "k2"}

NoneValue == Value("None", {}, 0)
\* A single dash Output object.
OutputValue == Value("Output", {}, 0)
\* A number: neither a Mapping nor a Collection.
IntValue == Value("int", {}, 0)
DictValue(K) == Value("dict", K, Cardinality(K))
ListValue(n) == Value("list", {}, n)
StrValue(n) == Value("str", {}, n)
\* A local that is not bound yet.
Unset == Value("unset", {}, 0)

\* bool(v), as in `not outputs`: None and empty containers are false.
Truthy(v) == v.kind = "Output" \/ (v.kind \in {"dict", "list", "str"} /\ v.len > 0)

\* isinstance(v, dict), isinstance(v, list)
IsInstanceDict(v) == v.kind = "dict"
IsInstanceList(v) == v.kind = "list"

\* isinstance(v, Mapping)
IsInstanceMapping(v) == v.kind = "dict"

\* An isinstance test that accepts lists only.
IsInstanceListOnly(v) == v.kind = "list"

\* isinstance(v, Collection): sized iterable containers, mappings and
\* strings included.
IsInstanceCollection(v) == v.kind \in {"dict", "list", "str"}

\* The Action models: a plain function with the outputs list of the model,
\* or a CapturedActionCallable with its own outputs (a dictionary or a list).
Actions ==
    {[captured |-> FALSE, outputs |-> ListValue(n)] : n \in 0..MaxOutputs}
    \cup {[captured |-> TRUE, outputs |-> DictValue(K)] : K \in SUBSET Keys}
    \cup {[captured |-> TRUE, outputs |-> ListValue(n)] : n \in 0..MaxOutputs}

\* The values of the argument inputs: a dictionary or a list.
InputsValues == {DictValue({}), ListValue(0)}

\* The values of the argument outputs that the signature admits.
OutputsValues ==
    {NoneValue, OutputValue}
    \cup {DictValue(K) : K \in SUBSET Keys}
    \cup {ListValue(n) : n \in 0..MaxOutputs}

\* The values an action function may return.
ReturnValues ==
    {NoneValue, IntValue}
    \cup {DictValue(K) : K \in SUBSET Keys}
    \cup {ListValue(n) : n \in 0..MaxOutputs}
    \cup {StrValue(n) : n \in 0..MaxOutputs}

\* callback_outputs of _get_callback_mapping: the outputs of the captured
\* callable, or the list of Outputs of the model, a one-element list being
\* replaced by its element.
GetCallbackMapping(a) ==
    IF a.captured THEN a.outputs
    ELSE IF a.outputs.len = 1 THEN OutputValue
    ELSE a.outputs

\* build: the key "external" exists only for non-empty outputs, and
\* callback_wrapper passes callback_outputs.get("external").
ExternalOutputs(external_callback_outputs) ==
    IF Truthy(external_callback_outputs) THEN external_callback_outputs ELSE NoneValue

\* The error checking of _action_callback_function: TRUE when a ValueError
\* is raised for these outputs and this return value.
RaisesValueError(outs, rv) ==
    IF ~Truthy(outs) THEN rv.kind # "None"
    ELSE IF IsInstanceDict(outs) THEN
        \/ ~IsInstanceMapping(rv)
        \/ outs.keys # rv.keys
    ELSE IF IsInstanceList(outs) THEN
        \/ ~IsInstanceCollection(rv)
        \/ rv.len # outs.len
    ELSE FALSE

\* No action callback is being built or run.
ActionIdle ==
    /\ action = [captured |-> FALSE, outputs |-> ListValue(0)]
    /\ inputs = ListValue(0)
    /\ outputs = Unset
    /\ return_value = Unset
    /\ result = Unset
    /\ action_pc = "idle"

-----------------------------------------------------------------------------
\* The graph run.

InitOf(inp) ==
    /\ input = inp
    /\ messages = inp.messages
    /\ dfs = inp.dfs
    /\ df_metadata = inp.df_metadata
    /\ dashboard_plan = None
    /\ pages = inp.pages
    /\ dashboard = None
    /\ df_idx = 1
    /\ current_df_names = <<>>
    /\ local_df_metadata = EmptyDict
    /\ sends = <<>>
    /\ task_writes = <<>>
    /\ completed = <<>>
    /\ requests = <<>>
    /\ pc = "__start__"
    /\ trace = <<>>

Init == ActionIdle /\ \E inp \in Inputs : InitOf(inp)

\* The state passes the validation of GraphState: the first superstep runs
\* the entry point _store_df_info, which starts by reading the state.
Start ==
    /\ pc = "__start__"
    /\ CheckDataframes(input.dfs_is_list, dfs)
    /\ pc' = "_store_df_info"
    /\ trace' = Append(trace, "_store_df_info")
    /\ df_idx' = 1
    /\ current_df_names' = <<>>
    /\ local_df_metadata' = df_metadata
    /\ UNCHANGED <<action_callback, input, graph_state, build_page_tasks, requests>>

\* check_dataframes raises: the GraphState is not constructed and no node
\* of the graph runs.
StartFail ==
    /\ pc = "__start__"
    /\ ~CheckDataframes(input.dfs_is_list, dfs)
    /\ pc' = "__error__"
    /\ trace' = Append(trace, "__error__")
    /\ UNCHANGED <<action_callback, input, graph_state, store_df_info_locals, build_page_tasks, requests>>

\* A request that does not tell the names assigned so far.
DataSumRequestNoNames(df, names) ==
    [df_schema |-> GetDfInfo(df).df_schema,
     df_sample |-> GetDfInfo(df).df_sample,
     current_df_names |-> <<>>]

\* The input of data_sum_chain.invoke for dataset df (messages left out).
DataSumRequest(df, names) ==
    [df_schema |-> GetDfInfo(df).df_schema,
     df_sample |-> GetDfInfo(df).df_sample,
     current_df_names |-> names]

\* One iteration of the loop of _store_df_info: the completion service
\* returns df_name for the dataset at df_idx.
StoreDfInfoIter(df_name) ==
    /\ pc = "_store_df_info"
    /\ df_idx <= Len(dfs)
    /\ LET df == dfs[df_idx]
           df_schema == GetDfInfo(df).df_schema
           df_id == DfId(df_name)
       IN  /\ current_df_names' = Append(current_df_names, df_name)
           /\ local_df_metadata' =
                  DictSet(local_df_metadata, df_id, [df_schema |-> df_schema, df |-> df])
    /\ requests' = Append(requests, DataSumRequest(dfs[df_idx], current_df_names))
    /\ df_idx' = df_idx + 1
    /\ UNCHANGED <<action_callback, input, graph_state, build_page_tasks, pc, trace>>

\* The completion request of an iteration raises and the dataset is skipped.
StoreDfInfoFailSkip ==
    /\ pc = "_store_df_info"
    /\ df_idx <= Len(dfs)
    /\ requests' = Append(requests, DataSumRequest(dfs[df_idx], current_df_names))
    /\ df_idx' = df_idx + 1
    /\ trace' = Append(trace, "__error__")
    /\ UNCHANGED <<action_callback, input, graph_state, current_df_names, local_df_metadata,
                   build_page_tasks, pc>>

\* The completion request of an iteration raises: the run aborts.
StoreDfInfoFail ==
    /\ pc = "_store_df_info"
    /\ df_idx <= Len(dfs)
    /\ requests' = Append(requests, DataSumRequest(dfs[df_idx], current_df_names))
    /\ pc' = "__error__"
    /\ trace' = Append(trace, "__error__")
    /\ UNCHANGED <<action_callback, input, graph_state, store_df_info_locals, build_page_tasks>>

\* The loop of _store_df_info is over: the node returns its df_metadata, the
\* update is applied and the edge to _dashboard_plan is followed.
StoreDfInfoReturn ==
    /\ pc = "_store_df_info"
    /\ df_idx > Len(dfs)
    /\ df_metadata' = local_df_metadata
    /\ df_idx' = 1
    /\ current_df_names' = <<>>
    /\ local_df_metadata' = EmptyDict
    /\ requests' = <<>>
    /\ pc' = "_dashboard_plan"
    /\ trace' = Append(trace, "_dashboard_plan")
    /\ UNCHANGED <<action_callback, input, messages, dfs, dashboard_plan, pages, dashboard, build_page_tasks>>

\* One Send per page plan, without the metadata of the state.
ContinueToPagesNoMetadata(plan, metadata) ==
    [i \in 1..Len(plan.pages) |->
        [node |-> "_build_page",
         arg |-> [page_plan |-> plan.pages[i], df_metadata |-> EmptyDict]]]

\* _continue_to_pages(state): one Send to _build_page per page plan.
ContinueToPages(plan, metadata) ==
    [i \in 1..Len(plan.pages) |->
        [node |-> "_build_page",
         arg |-> [page_plan |-> plan.pages[i], df_metadata |-> metadata]]]

\* _dashboard_plan returns the plan of the completion service; the update is
\* applied and the conditional edge _continue_to_pages is evaluated on the
\* updated state.  Its Sends are the tasks of the next superstep; when it
\* returns no Send, no node is triggered and the run is over.
DashboardPlan(plan) ==
    /\ pc = "_dashboard_plan"
    /\ dashboard_plan' = plan
    /\ sends' = ContinueToPages(plan, df_metadata)
    /\ task_writes' = [i \in DOMAIN sends' |-> <<>>]
    /\ pc' = IF sends' = <<>> THEN "__end__" ELSE "_build_page"
    /\ trace' = Append(trace, pc')
    /\ UNCHANGED <<action_callback, input, messages, dfs, df_metadata, pages, dashboard,
                   store_df_info_locals, completed, requests>>

\* The completion request of _dashboard_plan raises and is tried again.
DashboardPlanFailRetried ==
    /\ pc = "_dashboard_plan"
    /\ "__error__" \notin {trace[j] : j \in DOMAIN trace}
    /\ trace' = Append(trace, "__error__")
    /\ UNCHANGED <<action_callback, input, graph_state, store_df_info_locals, build_page_tasks, requests, pc>>

\* The completion request of _dashboard_plan raises: the run aborts.
DashboardPlanFail ==
    /\ pc = "_dashboard_plan"
    /\ pc' = "__error__"
    /\ trace' = Append(trace, "__error__")
    /\ UNCHANGED <<action_callback, input, graph_state, store_df_info_locals, build_page_tasks, requests>>

\* _build_page(state): the value of "pages" in the update it returns.
BuildPageUpdate(arg) == <<PageBuilderPage(arg.page_plan, arg.df_metadata)>>

\* The _build_page task of the i-th Send returns; its update is buffered
\* until the superstep is over.
BuildPage(i) ==
    /\ pc = "_build_page"
    /\ i \in DOMAIN sends
    /\ task_writes[i] = <<>>
    /\ task_writes' = [task_writes EXCEPT ![i] = BuildPageUpdate(sends[i].arg)]
    /\ completed' = Append(completed, i)
    /\ UNCHANGED <<action_callback, input, graph_state, store_df_info_locals, sends, requests, pc, trace>>

\* s without its i-th element.
RemoveAt(s, i) == [j \in 1..(Len(s) - 1) |-> IF j < i THEN s[j] ELSE s[j + 1]]

\* The _build_page task of the i-th Send raises and its page is left out.
BuildPageSkip(i) ==
    /\ pc = "_build_page"
    /\ i \in DOMAIN sends
    /\ task_writes[i] = <<>>
    /\ sends' = RemoveAt(sends, i)
    /\ task_writes' = RemoveAt(task_writes, i)
    /\ trace' = Append(trace, "__error__")
    /\ UNCHANGED <<action_callback, input, graph_state, store_df_info_locals, completed, requests, pc>>

\* The _build_page task of the i-th Send raises: the run aborts.
BuildPageFail(i) ==
    /\ pc = "_build_page"
    /\ i \in DOMAIN sends
    /\ task_writes[i] = <<>>
    /\ pc' = "__error__"
    /\ trace' = Append(trace, "__error__")
    /\ UNCHANGED <<action_callback, input, graph_state, store_df_info_locals, build_page_tasks, requests>>

\* A reducer that keeps the last update only.
OperatorReplace(a, b) == b

\* A reducer that appends the first element of the update only.
OperatorAppendFirst(a, b) == IF b = <<>> THEN a ELSE Append(a, b[1])

\* A reducer that puts the update before the current value.
OperatorPrepend(a, b) == b \o a

\* The reducer of GraphState.pages.
OperatorAdd(a, b) == a \o b

\* The value of pages after the updates writes[i..] were applied, in task order.
RECURSIVE ApplyWrites(_, _, _)
ApplyWrites(value, writes, i) ==
    IF i > Len(writes) THEN value
    ELSE ApplyWrites(OperatorAdd(value, writes[i]), writes, i + 1)

\* A superstep is over as soon as one of its tasks has returned.
AnyTaskReturned(writes) == \E i \in DOMAIN writes : writes[i] # <<>>

\* A superstep is over when all its tasks have returned.
AllTasksReturned(writes) == \A i \in DOMAIN writes : writes[i] # <<>>

\* The updates of a step applied in the order the tasks returned.
CompletionOrder(n, returned) == returned

\* The order in which the updates of the n tasks of a step are applied: the
\* order of the tasks (of the Sends), whatever the order they returned in.
TaskOrder(n, returned) == [i \in 1..n |-> i]

\* The end of the _build_page superstep: the buffered updates are applied
\* and the edge from _build_page triggers _build_dashboard, once.
BuildPageStepEnd ==
    /\ pc = "_build_page"
    /\ AllTasksReturned(task_writes)
    /\ LET order == TaskOrder(Len(sends), completed)
       IN  pages' = ApplyWrites(pages, [j \in DOMAIN order |-> task_writes[order[j]]], 1)
    /\ pc' = "_build_dashboard"
    /\ trace' = Append(trace, "_build_dashboard")
    /\ UNCHANGED <<action_callback, input, messages, dfs, df_metadata, dashboard_plan, dashboard,
                   store_df_info_locals, build_page_tasks, requests>>

\* A dashboard with the pages in reverse order.
DashboardReversed(title, dashboard_pages) ==
    [title |-> title,
     pages |-> [i \in 1..Len(dashboard_pages) |-> dashboard_pages[Len(dashboard_pages) + 1 - i]]]

\* vm.Dashboard(title=dashboard_plan.title, pages=pages)
Dashboard(title, dashboard_pages) == [title |-> title, pages |-> dashboard_pages]

\* _build_dashboard returns the dashboard; the update is applied and the
\* edge to END ends the run.
BuildDashboard ==
    /\ pc = "_build_dashboard"
    /\ dashboard' = Dashboard(dashboard_plan.title, pages)
    /\ pc' = "__end__"
    /\ trace' = Append(trace, "__end__")
    /\ UNCHANGED <<action_callback, input, messages, dfs, df_metadata, dashboard_plan, pages,
                   store_df_info_locals, build_page_tasks, requests>>

Next ==
    \/ Start
    \/ StartFail
    \/ \E df_name \in DatasetNames : StoreDfInfoIter(df_name)
    \/ StoreDfInfoFail
    \/ StoreDfInfoReturn
    \/ \E plan \in DashboardPlans : DashboardPlan(plan)
    \/ DashboardPlanFail
    \/ \E i \in 1..Len(sends) : BuildPage(i)
    \/ \E i \in 1..Len(sends) : BuildPageFail(i)
    \/ BuildPageStepEnd
    \/ BuildDashboard

Spec == Init /\ [][Next]_vars

\* The summarize stage alone, on one dataset, for longer dataset names.
InitSummarize ==
    \E inp \in Inputs :
        /\ Len(inp.dfs) = 1
        /\ CheckDataframes(inp.dfs_is_list, inp.dfs)
        /\ inp.pages = <<>>
        /\ InitOf(inp)
        /\ ActionIdle

NextSummarize ==
    \/ Start
    \/ \E df_name \in LongDatasetNames : StoreDfInfoIter(df_name)
    \/ StoreDfInfoFail
    \/ StoreDfInfoReturn

SpecSummarize == InitSummarize /\ [][NextSummarize]_vars

-----------------------------------------------------------------------------
\* The action callback.

\* No graph run: the state of the graph before it is invoked with no data.
NoGraphRun ==
    InitOf([messages |-> <<"user request">>, dfs |-> <<>>, dfs_is_list |-> TRUE,
            df_metadata |-> EmptyDict, pages |-> <<>>])

InitAction ==
    /\ NoGraphRun
    /\ action \in Actions
    /\ inputs \in InputsValues
    /\ outputs = Unset
    /\ return_value = Unset
    /\ result = Unset
    /\ action_pc = "build"

\* build registers callback_wrapper, and a trigger runs it: it calls
\* _action_callback_function with the external outputs of the mapping.
CallbackWrapper ==
    /\ action_pc = "build"
    /\ outputs' = ExternalOutputs(GetCallbackMapping(action))
    /\ action_pc' = "_action_callback_function"
    /\ UNCHANGED <<graph_run, action, inputs, return_value, result>>

\* _action_callback_function is called with outputs outs by another caller
\* than callback_wrapper.
ActionCallbackFunctionCall(outs) ==
    /\ action_pc = "build"
    /\ outputs' = outs
    /\ action_pc' = "_action_callback_function"
    /\ UNCHANGED <<graph_run, action, inputs, return_value, result>>

\* self.function(**inputs) or self.function(*inputs) returns rv.
FunctionReturns(rv) ==
    /\ action_pc = "_action_callback_function"
    /\ return_value' = rv
    /\ action_pc' = "check"
    /\ UNCHANGED <<graph_run, action, inputs, outputs, result>>

\* self.function raises: the exception leaves _action_callback_function.
FunctionRaises ==
    /\ action_pc = "_action_callback_function"
    /\ action_pc' = "function_error"
    /\ UNCHANGED <<graph_run, action, inputs, outputs, return_value, result>>

\* The error checking raises ValueError.
CheckRaises ==
    /\ action_pc = "check"
    /\ RaisesValueError(outputs, return_value)
    /\ action_pc' = "ValueError"
    /\ UNCHANGED <<graph_run, action, inputs, outputs, return_value, result>>

\* No error was raised: return return_value.
CheckReturns ==
    /\ action_pc = "check"
    /\ ~RaisesValueError(outputs, return_value)
    /\ result' = return_value
    /\ action_pc' = "return"
    /\ UNCHANGED <<graph_run, action, inputs, outputs, return_value>>

NextAction ==
    \/ CallbackWrapper
    \/ \E outs \in OutputsValues : ActionCallbackFunctionCall(outs)
    \/ \E rv \in ReturnValues : FunctionReturns(rv)
    \/ FunctionRaises
    \/ CheckRaises
    \/ CheckReturns

SpecAction == InitAction /\ [][NextAction]_vars

-----------------------------------------------------------------------------
\* Properties.

\* The number of times superstep s was entered.
Entered(s) == Cardinality({j \in DOMAIN trace : trace[j] = s})

\* The number of page contributions merged into pages so far.
Merged == Len(pages) - Len(input.pages)

\* C1: for a plan of k pages (k >= 0) the fan-out emits exactly k build
\* tasks, the i-th for the i-th page plan of dashboard_plan.pages, and the
\* assemble stage is entered only after every one of the k tasks has returned
\* a single-page contribution and exactly k contributions were merged into
\* pages.
C1_FanOutThenAssemble ==
    /\ dashboard_plan # None =>
          /\ Len(sends) = Len(dashboard_plan.pages)
          /\ DOMAIN task_writes = DOMAIN sends
          /\ \A i \in DOMAIN sends :
                /\ sends[i].node = "_build_page"
                /\ sends[i].arg.page_plan = dashboard_plan.pages[i]
    /\ Entered("_build_dashboard") > 0 =>
          /\ \A i \in DOMAIN sends : Len(task_writes[i]) = 1
          /\ Merged = Len(dashboard_plan.pages)
    /\ Entered("_build_dashboard") = 0 => Merged = 0

\* C1 witness: assemble has been entered for a plan of two pages.
C1_Witness ==
    /\ pc = "_build_dashboard"
    /\ Len(dashboard_plan.pages) = 2
    /\ Merged = 2

\* C2: in every run, for every number of spawned build branches (zero
\* included) and every completion order, the assemble stage is entered exactly
\* once by the time the run is over, never more than once, and never while a
\* branch is still running.
C2_AssembleExactlyOnce ==
    /\ Entered("_build_dashboard") <= 1
    /\ Entered("_build_dashboard") = 1 => AllTasksReturned(task_writes)
    /\ pc = "__end__" => Entered("_build_dashboard") = 1

\* C3: when the plan has zero pages, zero build tasks are emitted and the run
\* still enters assemble, so that the dashboard is set when the run ends.
C3_EmptyPlanAssembles ==
    (dashboard_plan # None /\ dashboard_plan.pages = <<>>) =>
        /\ sends = <<>>
        /\ pc = "__end__" => (Entered("_build_dashboard") = 1 /\ dashboard # None)

\* The transitions of the state machine
\* start -> summarize -> plan -> {build_page}* -> assemble -> end.
StageOrder ==
    {<<"_store_df_info", "_dashboard_plan">>,
     <<"_dashboard_plan", "_build_page">>,
     <<"_dashboard_plan", "_build_dashboard">>,
     <<"_build_page", "_build_dashboard">>,
     <<"_build_dashboard", "__end__">>}

\* C4: the stages of a run are entered in the order summarize, plan, build_page
\* branches, assemble, end: every step from one stage to the next is a
\* transition of that chain (or the abort of the run), the first stage is
\* summarize, and no stage is entered twice.
C4_StageOrder ==
    /\ trace # <<>> => trace[1] = "_store_df_info"
    /\ \A j \in 1..(Len(trace) - 1) :
          \/ <<trace[j], trace[j + 1]>> \in StageOrder
          \/ trace[j + 1] = "__error__"
    /\ \A j, l \in DOMAIN trace : trace[j] = trace[l] => j = l

\* C5: a run in which nothing fails ends with the dashboard set.
C5_EndHasDashboard == pc = "__end__" => dashboard # None

\* C6: dashboard_plan is written once, by the plan stage, and is set before
\* any build task exists and when the run is over; dashboard is written at
\* most once, by the assemble stage; and whenever dashboard is set, the number
\* of page-build results collected into pages is len(dashboard_plan.pages).
C6_WrittenOnce ==
    /\ [](/\ sends # <<>> => dashboard_plan # None
          /\ pc \in {"_build_page", "_build_dashboard", "__end__"} => dashboard_plan # None
          /\ dashboard # None =>
                /\ dashboard_plan # None
                /\ Merged = Len(dashboard_plan.pages))
    /\ [][/\ dashboard_plan' # dashboard_plan =>
                (pc = "_dashboard_plan" /\ dashboard_plan = None)
          /\ dashboard' # dashboard =>
                (pc = "_build_dashboard" /\ dashboard = None)]_vars

\* C6 witness: the dashboard is set for a plan of two pages in a run that was
\* started with a page already in the state.
C6_Witness ==
    /\ dashboard # None
    /\ Len(dashboard_plan.pages) = 2
    /\ input.pages # <<>>

\* C7: the dashboard has the title of the plan and exactly the pages of the
\* state at the moment assemble ran, in the order they were accumulated.
C7_DashboardOfPlanAndPages ==
    dashboard # None =>
        /\ dashboard.title = dashboard_plan.title
        /\ dashboard.pages = pages

\* C7 witness: a dashboard of two different pages.
C7_Witness ==
    /\ dashboard # None
    /\ Len(dashboard.pages) = 2
    /\ dashboard.pages[1] # dashboard.pages[2]
    /\ dashboard.title = "t2"

\* C8: for a non-empty list of datasets, the metadata mapping has as many
\* keys as there are datasets once the summarize stage is over (for a run
\* started with an empty mapping).
C8_OneEntryPerDataset ==
    (pc = "_dashboard_plan" /\ Len(dfs) > 0 /\ input.df_metadata = EmptyDict) =>
        Cardinality(DOMAIN df_metadata) = Len(dfs)

\* ^[a-z0-9_]+$ with no leading and no trailing underscore.
IsIdentifier(id) ==
    /\ id # <<>>
    /\ \A i \in DOMAIN id : id[i] \in {"a", "_"}
    /\ id[1] # "_"
    /\ id[Len(id)] # "_"

\* The identifiers the summarize stage has inserted so far.
InsertedIds == {DfId(current_df_names[i]) : i \in DOMAIN current_df_names}

\* C9: every identifier the summarize stage inserts into the metadata
\* mapping matches ^[a-z0-9_]+$ and has no leading or trailing underscore.
C9_IdsAreIdentifiers ==
    \A id \in InsertedIds : id \in DOMAIN local_df_metadata /\ IsIdentifier(id)

\* C10: normalising an identifier that the summarize stage produced and
\* stored returns the same identifier.
C10_NormalizeIdempotent ==
    \A id \in DOMAIN local_df_metadata \ DOMAIN input.df_metadata : DfId(id) = id

\* C10 witness: an identifier produced from a name with an upper-case letter,
\* runs of non-word characters and underscores at both ends.
C10_Witness ==
    /\ current_df_names = << <<"_", "-", "A", "-">> >>
    /\ DOMAIN local_df_metadata = {<<"a">>}

\* A task of superstep s raised.
FailedAt(s) ==
    \E j \in 1..(Len(trace) - 1) : trace[j] = s /\ trace[j + 1] = "__error__"

\* C11: when the completion call of the plan stage fails, the run aborts at
\* the plan stage: dashboard_plan and dashboard stay unset, no build task is
\* spawned, assemble is never entered, and nothing happens afterwards.
C11_PlanFailureAborts ==
    /\ [](FailedAt("_dashboard_plan") =>
            /\ pc = "__error__"
            /\ dashboard_plan = None
            /\ dashboard = None
            /\ sends = <<>>
            /\ task_writes = <<>>
            /\ Entered("_build_page") = 0
            /\ Entered("_build_dashboard") = 0)
    /\ [][FailedAt("_dashboard_plan") => UNCHANGED vars]_vars

\* C11 witness: the plan stage failed after two datasets were summarized.
C11_Witness ==
    /\ FailedAt("_dashboard_plan")
    /\ Len(dfs) = 2
    /\ df_metadata # input.df_metadata

\* C12: when one of the build branches fails, the run aborts: assemble is
\* never entered, no contribution is merged and dashboard stays unset,
\* whatever the other branches did; and a dashboard never has fewer pages
\* than the run started with plus the planned ones.
C12_BuildFailureAborts ==
    /\ [](FailedAt("_build_page") =>
            /\ pc = "__error__"
            /\ dashboard = None
            /\ pages = input.pages
            /\ Entered("_build_dashboard") = 0)
    /\ [](dashboard # None =>
            Len(dashboard.pages) = Len(input.pages) + Len(dashboard_plan.pages))
    /\ [][FailedAt("_build_page") => UNCHANGED vars]_vars

\* C12 witness: one of two branches failed after the other had returned.
C12_Witness ==
    /\ FailedAt("_build_page")
    /\ Len(sends) = 2
    /\ Len(completed) = 1

\* C13: when the completion call for a dataset fails during summarize, the
\* run aborts: the request is not issued again, no later dataset is
\* summarized (one request per dataset up to the failed one), the plan stage
\* is never entered, and df_metadata, dashboard_plan and dashboard are
\* as they were.
C13_SummarizeFailureAborts ==
    /\ [](FailedAt("_store_df_info") =>
            /\ pc = "__error__"
            /\ Len(requests) = df_idx
            /\ Len(current_df_names) = df_idx - 1
            /\ \A j \in DOMAIN requests :
                  requests[j].df_schema = GetDfInfo(dfs[j]).df_schema
            /\ Entered("_dashboard_plan") = 0
            /\ df_metadata = input.df_metadata
            /\ dashboard_plan = None
            /\ dashboard = None)
    /\ [][FailedAt("_store_df_info") => UNCHANGED vars]_vars

\* C13 witness: the request for the first of two datasets failed.
C13_Witness ==
    /\ FailedAt("_store_df_info")
    /\ Len(dfs) = 2
    /\ df_idx = 1

\* The pages built for the page plans of plan, in plan order.
PlannedPages(plan, metadata) ==
    [i \in 1..Len(plan.pages) |-> PageBuilderPage(plan.pages[i], metadata)]

\* C14: the dashboard a run ends with is determined by the input and the
\* answers of the (deterministic) completion stub alone: it is the plan's
\* title with the input's pages followed by the page of each page plan, in
\* every run, whatever the order in which the build branches returned.  Two
\* runs on the same input with the same stub therefore end with the same
\* dashboard.
C14_DashboardDetermined ==
    dashboard # None =>
        dashboard = [title |-> dashboard_plan.title,
                     pages |-> input.pages \o PlannedPages(dashboard_plan, df_metadata)]

\* C14 witness: a dashboard of two different pages whose branches returned
\* out of plan order.
C14_Witness ==
    /\ dashboard # None
    /\ completed = <<2, 1>>
    /\ dashboard_plan.pages = <<"p1", "p2">>

\* The contributions of the build tasks that have returned.
Returned == {i \in DOMAIN task_writes : task_writes[i] # <<>>}

\* C15 (as claimed): the merge is associative and commutative: merging the
\* contributions of the returned branches into pages in either order and in
\* either grouping gives the same value.
C15_MergeAssociativeCommutative ==
    \A i, j \in Returned :
        i # j =>
            /\ OperatorAdd(OperatorAdd(pages, task_writes[i]), task_writes[j])
                = OperatorAdd(pages, OperatorAdd(task_writes[i], task_writes[j]))
            /\ OperatorAdd(OperatorAdd(pages, task_writes[i]), task_writes[j])
                = OperatorAdd(OperatorAdd(pages, task_writes[j]), task_writes[i])

\* C15 (amended): the merge is associative, and the value of pages after
\* the build step is the same for every completion order, because the
\* contributions are merged in the order of the Sends.
C15_MergeAssociativeOrderFree ==
    /\ \A i, j \in Returned :
          i # j =>
              OperatorAdd(OperatorAdd(pages, task_writes[i]), task_writes[j])
                = OperatorAdd(pages, OperatorAdd(task_writes[i], task_writes[j]))
    /\ Entered("_build_dashboard") > 0 =>
          pages = input.pages \o PlannedPages(dashboard_plan, df_metadata)

\* C15 witness: two different contributions were merged after their branches
\* returned out of plan order.
C15_Witness ==
    /\ pc = "_build_dashboard"
    /\ completed = <<2, 1>>
    /\ task_writes[1] # task_writes[2]

\* The contributions in the order the branches returned.
CompletedPages == [j \in DOMAIN completed |-> task_writes[completed[j]][1]]

\* C20 (as claimed): each branch contributes one page and dashboard.pages is
\* in the order in which the branches completed.
C20_PagesInCompletionOrder ==
    /\ \A i \in Returned : Len(task_writes[i]) = 1
    /\ dashboard # None => dashboard.pages = input.pages \o CompletedPages

\* C20 (amended): each branch contributes one page, and the i-th page added
\* to pages (and to dashboard.pages) is the contribution of the i-th Send,
\* that is of the i-th page plan, whatever the order the branches completed in.
C20_PagesInPlanOrder ==
    /\ \A i \in Returned : Len(task_writes[i]) = 1
    /\ dashboard # None =>
          /\ Len(dashboard.pages) = Len(input.pages) + Len(sends)
          /\ \A i \in DOMAIN sends :
                /\ dashboard.pages[Len(input.pages) + i] = task_writes[i][1]
                /\ dashboard.pages[Len(input.pages) + i].page_plan = dashboard_plan.pages[i]

\* C20 witness: the branch of the second page plan returned first, and the
\* dashboard has the page of the first page plan first.
C20_Witness ==
    /\ dashboard # None
    /\ input.pages = <<>>
    /\ completed = <<2, 1>>
    /\ dashboard.pages[1].page_plan = "p1"
    /\ dashboard.pages[2].page_plan = "p2"

\* The input does not pass check_dataframes.
InvalidDfs ==
    \/ ~input.dfs_is_list
    \/ \E i \in DOMAIN input.dfs : input.dfs[i] = NotADataFrame

InSummarize == pc = "_store_df_info" \/ FailedAt("_store_df_info")

\* C17: the summarize stage issues its requests one dataset after another in
\* input order; the request for the i-th dataset carries exactly the names
\* returned for the datasets before it, in order (none for the first); and a
\* request is issued only when every earlier request has returned.
C17_SequentialRequests ==
    InSummarize =>
        /\ df_idx = Len(current_df_names) + 1
        /\ Len(requests) = Len(current_df_names) + (IF pc = "__error__" THEN 1 ELSE 0)
        /\ \A j \in DOMAIN requests :
              /\ requests[j].df_schema = GetDfInfo(dfs[j]).df_schema
              /\ requests[j].df_sample = GetDfInfo(dfs[j]).df_sample
              /\ requests[j].current_df_names = SubSeq(current_df_names, 1, j - 1)

\* C17 witness: the request for the second dataset carried the name returned
\* for the first.
C17_Witness ==
    /\ pc = "_store_df_info"
    /\ Len(requests) = 2
    /\ requests[1].current_df_names = <<>>
    /\ requests[2].current_df_names = << <<"A">> >>

\* The position of the last dataset whose name was normalised to id.
LastWithId(id) ==
    CHOOSE i \in DOMAIN current_df_names :
        /\ DfId(current_df_names[i]) = id
        /\ \A j \in DOMAIN current_df_names : DfId(current_df_names[j]) = id => j <= i

\* C18: during the summarize stage the metadata mapping only grows, the
\* entries it started with are kept unless overwritten, and an identifier
\* maps to the schema and data of the last dataset normalised to it; the
\* mapping of the state only grows and is, after the stage, that mapping.
C18_GrowsLastWriteWins ==
    /\ [](InSummarize =>
            /\ DOMAIN local_df_metadata = DOMAIN input.df_metadata \cup InsertedIds
            /\ \A id \in DOMAIN input.df_metadata \ InsertedIds :
                  local_df_metadata[id] = input.df_metadata[id]
            /\ \A id \in InsertedIds :
                  local_df_metadata[id] =
                      [df_schema |-> GetDfInfo(dfs[LastWithId(id)]).df_schema,
                       df |-> dfs[LastWithId(id)]])
    /\ [][/\ (pc = "_store_df_info" /\ pc' # "_dashboard_plan") =>
                DOMAIN local_df_metadata \subseteq DOMAIN local_df_metadata'
          /\ DOMAIN df_metadata \subseteq DOMAIN df_metadata'
          /\ (pc = "_store_df_info" /\ pc' = "_dashboard_plan") =>
                df_metadata' = local_df_metadata]_vars

\* C18 witness: two datasets were normalised to the identifier the mapping
\* already had, and the entry is that of the second.
C18_Witness ==
    /\ pc = "_store_df_info"
    /\ input.df_metadata = KnownMetadata
    /\ current_df_names = << <<"a">>, <<"A">> >>
    /\ DOMAIN local_df_metadata = {<<"a">>}
    /\ local_df_metadata[<<"a">>].df = 2

\* C19: every stage writes its own field only: df_metadata changes in
\* summarize only, dashboard_plan in plan only, pages in the build step only,
\* dashboard in assemble only; messages and dfs never change; and from the
\* fan-out on every build branch has the metadata and the page plan of the
\* state, which do not change any more.
C19_Frame ==
    /\ [](/\ messages = input.messages
          /\ dfs = input.dfs
          /\ Len(sends) > 0 => Len(sends) = Len(dashboard_plan.pages)
          /\ \A i \in DOMAIN sends :
                /\ sends[i].arg.df_metadata = df_metadata
                /\ sends[i].arg.page_plan = dashboard_plan.pages[i])
    /\ [][/\ messages' = messages
          /\ dfs' = dfs
          /\ df_metadata' # df_metadata =>
                (pc = "_store_df_info" /\ UNCHANGED <<dashboard_plan, pages, dashboard>>)
          /\ dashboard_plan' # dashboard_plan =>
                (pc = "_dashboard_plan" /\ UNCHANGED <<df_metadata, pages, dashboard>>)
          /\ pages' # pages =>
                (pc = "_build_page" /\ UNCHANGED <<df_metadata, dashboard_plan, dashboard>>)
          /\ dashboard' # dashboard =>
                (pc = "_build_dashboard" /\ UNCHANGED <<df_metadata, dashboard_plan, pages>>)]_vars

\* C19 witness: the run is over, every field was written by its stage, and
\* two branches were given the metadata of two datasets.
C19_Witness ==
    /\ pc = "__end__"
    /\ dashboard # None
    /\ Len(sends) = 2
    /\ Cardinality(DOMAIN df_metadata) = 2
    /\ df_metadata # input.df_metadata

\* C21: the pages of the initial state are never discarded: when assemble
\* runs, pages is the initial pages followed by the k built pages, so
\* dashboard.pages has len(initial pages) + k elements, and has k elements
\* only when the run started with an empty pages list.
C21_InitialPagesKept ==
    LET k == Len(dashboard_plan.pages)
        n == Len(input.pages)
    IN  /\ pc = "_build_dashboard" =>
              /\ Len(pages) = n + k
              /\ SubSeq(pages, 1, n) = input.pages
              /\ \A i \in 1..k : pages[n + i] = task_writes[i][1]
        /\ dashboard # None =>
              /\ Len(dashboard.pages) = n + k
              /\ SubSeq(dashboard.pages, 1, n) = input.pages
              /\ (Len(dashboard.pages) = k) <=> (input.pages = <<>>)

\* C21 witness: a run started with one page has built two more pages and
\* assembled a dashboard of three pages.
C21_Witness ==
    /\ dashboard # None
    /\ input.pages = <<KnownPage>>
    /\ Len(dashboard_plan.pages) = 2
    /\ Len(dashboard.pages) = 3
    /\ dashboard.pages[1] = KnownPage

\* The action has no defined outputs: none were given, or an empty
\* dictionary or list.
NoOutputs == outputs.kind = "None" \/ (outputs.kind \in {"dict", "list"} /\ outputs.len = 0)

\* The shape of the return value does not fit the defined outputs.
ShapeMismatch ==
    \/ /\ NoOutputs
       /\ return_value.kind # "None"
    \/ /\ outputs.kind = "dict" /\ ~NoOutputs
       /\ \/ return_value.kind # "dict"
          \/ \E k \in Keys : (k \in outputs.keys) # (k \in return_value.keys)
    \/ /\ outputs.kind = "list" /\ ~NoOutputs
       /\ \/ return_value.kind \notin {"list", "str", "dict"}
          \/ return_value.len # outputs.len

\* C22: once the action function has returned, the callback raises a
\* ValueError exactly when the shape of the return value does not fit the
\* defined outputs (no outputs and a value other than None; dictionary
\* outputs and a value that is no mapping or has other keys; list outputs and
\* a value that is no collection or has another length), and otherwise (a
\* single Output with any value included) it returns the return value of the
\* action function unmodified.
C22_ValueErrorIffShapeMismatch ==
    /\ action_pc = "ValueError" => ShapeMismatch /\ result = Unset
    /\ action_pc = "return" => ~ShapeMismatch /\ result = return_value
    /\ (action_pc \in {"ValueError", "return"} /\ outputs.kind = "Output") =>
          action_pc = "return"

\* C22 witness: the callback returned a string of two characters for a list
\* of two outputs.
C22_Witness ==
    /\ action_pc = "return"
    /\ outputs = ListValue(2)
    /\ return_value = StrValue(2)
    /\ result = StrValue(2)

====
